---- MODULE Spec2Model ----
(***************************************************************************)
(* Scholar-Stream: the paper retrieval and cache reconciliation core.      *)
(* State machine of src/App.tsx (React state, effects, handlers and the    *)
(* asynchronous fetchPapers calls) over src/services/paperService.ts       *)
(* (executeArxivQuery / performFetch, title de-duplication, date sort).    *)
(*                                                                         *)
(* One action is one event-loop turn: a handler (or a timer / promise      *)
(* continuation) together with the render it causes and the effects of     *)
(* that render.                                                            *)
(***************************************************************************)
EXTENDS Integers, Sequences, FiniteSets, TLC

\* ------------------------------------------------------------------ bounds
MaxTopics == 1
MaxFetches == 2
MaxPage == 1
MaxBookmarks == 1
MaxStarts == 3
MaxBatch == 2
MaxPrev == 1
MaxStartIndex == 2
MaxListed == 2
MaxKeywords == 2
MaxQueryTopics == 6
\* The debounce interval of the cache write, in ticks of the clock, and the
\* last tick of the clock.
DebounceTicks == 2
MaxClock == 3

\* ------------------------------------------------------- program constants
BackoffBase == 300
TopicPageSize == 8
AggPageSize == 12
TermLimit == 15
PruneCount == 20
\* The endpoints of executeArxivQuery in priority order: the API itself, then
\* the two CORS proxies.
Endpoints == <<"export.arxiv.org", "api.allorigins.win", "corsproxy.io">>

Null == "null"
ALL == "all"
Free == [pc |-> "free"]
ErrMsg == "Unable to load papers. Please check your connection."

FEED == "FEED"
BOOKMARKS == "BOOKMARKS"
MANAGE == "MANAGE"
ViewModes == {FEED, BOOKMARKS, MANAGE}

\* Topic ids are opaque unique strings; the n-th id ever created.
IdStr(n) == <<"1", "2", "3", "4">>[n]
TopicIds == {IdStr(n) : n \in 1..MaxTopics}

\* ------------------------------------------------------------------ papers
\* A title is a sequence of characters.
UpperCase == {"A", "B", "C"}
LowerCase == {"a", "b", "c"}
Digits == {"0"}

ToLower(ch) ==
    IF ch = "A" THEN "a" ELSE IF ch = "B" THEN "b" ELSE IF ch = "C" THEN "c" ELSE ch

IsAlnum(ch) == ch \in LowerCase \cup Digits

RECURSIVE MapLower(_)
MapLower(s) == IF s = <<>> THEN <<>> ELSE <<ToLower(Head(s))>> \o MapLower(Tail(s))

\* p.title.toLowerCase().replace(/[^a-z0-9]/g, '')
NormalizeTitle(t) == SelectSeq(MapLower(t), IsAlnum)

\* The publications the upstream can return: P1 and P2 are a re-submission
\* pair (same normalized title, different ids).
P1 == [id |-> "p1", title |-> <<"A", "b">>, publishDate |-> 2]
P2 == [id |-> "p2", title |-> <<"a", ":", "B">>, publishDate |-> 1]
P3 == [id |-> "p3", title |-> <<"C">>, publishDate |-> 3]
Universe == {P1, P2, P3}
PaperIds == {p.id : p \in Universe}

\* An upstream response page: any sequence of at most MaxPage entries.
Pages == UNION {[1..n -> Universe] : n \in 0..MaxPage}

Range(s) == {s[i] : i \in 1..Len(s)}
Ids(s) == {s[i].id : i \in 1..Len(s)}
Titles(s) == [i \in 1..Len(s) |-> s[i].title]

\* ------------------------------------------------------ paperService.ts
\* The de-duplication loop of fetchPapersForTopic / fetchAggregatedPapers.
RECURSIVE DedupLoop(_, _, _)
DedupLoop(newPapers, seenTitles, uniquePapers) ==
    IF newPapers = <<>> THEN uniquePapers
    ELSE LET p == Head(newPapers)
             nTitle == NormalizeTitle(p.title)
         IN  IF nTitle \notin seenTitles
             THEN DedupLoop(Tail(newPapers), seenTitles \cup {nTitle}, Append(uniquePapers, p))
             ELSE DedupLoop(Tail(newPapers), seenTitles, uniquePapers)

\* Variant of Deduplicate that filters against excludeTitles only, not against
\* the papers already kept from the same page.
Deduplicate_ExcludeOnly(newPapers, excludeTitles) ==
    LET Fresh(p) == NormalizeTitle(p.title) \notin
                        {NormalizeTitle(excludeTitles[i]) : i \in 1..Len(excludeTitles)}
    IN  SelectSeq(newPapers, Fresh)

Deduplicate(newPapers, excludeTitles) ==
    DedupLoop(newPapers, {NormalizeTitle(excludeTitles[i]) : i \in 1..Len(excludeTitles)}, <<>>)

\* Array.prototype.sort with (a, b) => date(b) - date(a): stable, newest first.
RECURSIVE InsertByDate(_, _)
InsertByDate(sorted, p) ==
    IF sorted = <<>> THEN <<p>>
    ELSE IF Head(sorted).publishDate >= p.publishDate
         THEN <<Head(sorted)>> \o InsertByDate(Tail(sorted), p)
         ELSE <<p>> \o sorted

RECURSIVE SortByDateDesc(_)
SortByDateDesc(s) ==
    IF s = <<>> THEN <<>>
    ELSE InsertByDate(SortByDateDesc(SubSeq(s, 1, Len(s) - 1)), s[Len(s)])

\* What fetchPapersForTopic / fetchAggregatedPapers return for a parsed page.
ServiceResult(page, excludeTitles) == SortByDateDesc(Deduplicate(page, excludeTitles))

\* ---------------------------------------------------- the search query
\* A string is the sequence of its pieces: the words of a name or keyword, the
\* characters that cleanTerm treats specially (the double quote, the
\* backslash, the blank) and the fixed pieces of the query syntax.
DQuote == "\""
Backslash == "\\"
Blank == " "

RECURSIVE TrimStart(_)
TrimStart(t) == IF t # <<>> /\ Head(t) = Blank THEN TrimStart(Tail(t)) ELSE t

RECURSIVE TrimEnd(_)
TrimEnd(t) ==
    IF t # <<>> /\ t[Len(t)] = Blank THEN TrimEnd(SubSeq(t, 1, Len(t) - 1)) ELSE t

\* t.replace(/["\\]/g, '').trim()
cleanTerm(t) ==
    LET Kept(piece) == piece \notin {DQuote, Backslash}
    IN  TrimStart(TrimEnd(SelectSeq(t, Kept)))

ComputerScience == <<"Computer", Blank, "Science">>
Statistics == <<"Statistics">>
ElectricalEngineering ==
    <<"Electrical", Blank, "Engineering", Blank, "and", Blank, "Systems", Blank, "Science">>
ArtificialIntelligence == <<"Artificial", Blank, "Intelligence">>
MachineLearning == <<"Machine", Blank, "Learning">>
SystemsAndControl == <<"Systems", Blank, "and", Blank, "Control">>
\* A field name the table does not hold, with characters to clean.
UnlistedField == <<Blank, DQuote, "Unlisted", DQuote, Blank, "Field", Backslash>>

\* SUB_CATEGORY_TO_CODE[name] || "": the rows for the three fields above.
SUB_CATEGORY_TO_CODE(name) ==
    IF name = ArtificialIntelligence THEN "cs.AI"
    ELSE IF name = MachineLearning THEN "cs.LG"
    ELSE IF name = SystemsAndControl THEN "cs.SY"
    ELSE ""

\* Variant of getCategoryCode that only looks the field up in the table.
getCategoryCode_TableOnly(topic) ==
    IF topic.subCategory # <<>> THEN SUB_CATEGORY_TO_CODE(topic.subCategory) ELSE ""

getCategoryCode(topic) ==
    IF topic.subCategory # <<>>
    THEN IF topic.subCategory = SystemsAndControl /\ topic.category = ElectricalEngineering
         THEN "eess.SY"
         ELSE IF topic.subCategory = MachineLearning /\ topic.category = Statistics
              THEN "stat.ML"
              ELSE SUB_CATEGORY_TO_CODE(topic.subCategory)
    ELSE ""

\* `cat:${code}` and `all:"${cleanTerm(term)}"`
CatClause(code) == <<"cat:", code>>
AllClause(term) == <<"all:", DQuote>> \o cleanTerm(term) \o <<DQuote>>

\* parts.join(separator)
RECURSIVE Join(_, _)
Join(parts, separator) ==
    IF parts = <<>> THEN <<>>
    ELSE IF Len(parts) = 1 THEN parts[1]
    ELSE parts[1] \o <<separator>> \o Join(Tail(parts), separator)

\* topic.keywords.forEach(k => { if (k) keywordTerms.push(`all:"${cleanTerm(k)}"`) })
RECURSIVE KeywordTerms(_)
KeywordTerms(keywords) ==
    IF keywords = <<>> THEN <<>>
    ELSE IF Head(keywords) # <<>>
         THEN <<AllClause(Head(keywords))>> \o KeywordTerms(Tail(keywords))
         ELSE KeywordTerms(Tail(keywords))

\* The searchQuery of fetchPapersForTopic.
TopicQuery(topic) ==
    LET officialCode == getCategoryCode(topic)
        base == IF officialCode # "" THEN CatClause(officialCode)
                ELSE IF topic.subCategory # <<>> THEN AllClause(topic.subCategory)
                ELSE AllClause(topic.category)
        queryParts == <<base>> \o KeywordTerms(topic.keywords)
    IN  Join(queryParts, " AND ")

\* The categoryTerms of fetchAggregatedPapers: one term per topic.
RECURSIVE CategoryTerms(_)
CategoryTerms(topicList) ==
    IF topicList = <<>> THEN <<>>
    ELSE LET topic == Head(topicList)
             code == getCategoryCode(topic)
             term == IF topic.subCategory # <<>> THEN topic.subCategory ELSE topic.category
         IN  <<IF code # "" THEN CatClause(code) ELSE AllClause(term)>>
                 \o CategoryTerms(Tail(topicList))

\* aiKeywords.forEach(k => { if (k) categoryTerms.unshift(...) })
RECURSIVE UnshiftKeywords(_, _)
UnshiftKeywords(aiKeywords, terms) ==
    IF aiKeywords = <<>> THEN terms
    ELSE UnshiftKeywords(Tail(aiKeywords),
                         IF Head(aiKeywords) # <<>>
                         THEN <<AllClause(Head(aiKeywords))>> \o terms ELSE terms)

\* The searchQuery of fetchAggregatedPapers.
AggregatedQuery(topicList, aiKeywords) ==
    LET categoryTerms == UnshiftKeywords(aiKeywords, CategoryTerms(topicList))
        limitedTerms == SubSeq(categoryTerms, 1,
                               IF Len(categoryTerms) < TermLimit
                               THEN Len(categoryTerms) ELSE TermLimit)
    IN  IF Len(limitedTerms) > 0 THEN <<"(">> \o Join(limitedTerms, " OR ") \o <<")">>
        ELSE <<"all:science">>

\* The queries fetchAggregatedPapers sends: none when no topic is subscribed.
AggregatedRequests(topicList, aiKeywords) ==
    IF Len(topicList) = 0 THEN <<>> ELSE <<AggregatedQuery(topicList, aiKeywords)>>

\* ------------------------------------------------------------- App.tsx
\* const cacheKey = activeTopicId || "all"
CacheKeyOf(active) == IF active = Null THEN ALL ELSE active

\* Variant of FilterNew with the id filter left out.
FilterNew_KeepAll(newPapers, existingIds) == newPapers

\* newPapers.filter(p => !existingIds.has(p.id))
RECURSIVE FilterNew(_, _)
FilterNew(newPapers, existingIds) ==
    IF newPapers = <<>> THEN <<>>
    ELSE IF Head(newPapers).id \in existingIds
         THEN FilterNew(Tail(newPapers), existingIds)
         ELSE <<Head(newPapers)>> \o FilterNew(Tail(newPapers), existingIds)

\* Variant of Merge that re-sorts the merged entry by date.
Merge_Resorted(prevCache, cacheKey, newPapers, forceRefresh) ==
    LET prevPapers == IF forceRefresh \/ cacheKey \notin DOMAIN prevCache
                      THEN <<>> ELSE prevCache[cacheKey]
        updatedList == SortByDateDesc(prevPapers \o FilterNew(newPapers, Ids(prevPapers)))
    IN  [k \in DOMAIN prevCache \cup {cacheKey} |->
            IF k = cacheKey THEN updatedList ELSE prevCache[k]]

\* Variant of Merge that merges into the previous entry whatever forceRefresh.
Merge_KeepPrev(prevCache, cacheKey, newPapers, forceRefresh) ==
    LET prevPapers == IF cacheKey \notin DOMAIN prevCache THEN <<>> ELSE prevCache[cacheKey]
        updatedList == prevPapers \o FilterNew(newPapers, Ids(prevPapers))
    IN  [k \in DOMAIN prevCache \cup {cacheKey} |->
            IF k = cacheKey THEN updatedList ELSE prevCache[k]]

\* Variant of Merge that records nothing when the batch is empty.
Merge_SkipEmpty(prevCache, cacheKey, newPapers, forceRefresh) ==
    IF newPapers = <<>> THEN prevCache
    ELSE LET prevPapers == IF forceRefresh \/ cacheKey \notin DOMAIN prevCache
                           THEN <<>> ELSE prevCache[cacheKey]
             updatedList == prevPapers \o FilterNew(newPapers, Ids(prevPapers))
         IN  [k \in DOMAIN prevCache \cup {cacheKey} |->
                 IF k = cacheKey THEN updatedList ELSE prevCache[k]]

\* The setPapersCache updater of fetchPapers.
Merge(prevCache, cacheKey, newPapers, forceRefresh) ==
    LET prevPapers == IF forceRefresh \/ cacheKey \notin DOMAIN prevCache
                      THEN <<>> ELSE prevCache[cacheKey]
        existingIds == Ids(prevPapers)
        uniqueNew == FilterNew(newPapers, existingIds)
        updatedList == prevPapers \o uniqueNew
    IN  [k \in DOMAIN prevCache \cup {cacheKey} |->
            IF k = cacheKey THEN updatedList ELSE prevCache[k]]

\* Variant of DeleteKey that leaves the entry in place.
DeleteKey_Keep(prevCache, id) == prevCache

\* Variant of DeleteKey that also invalidates the aggregated entry.
DeleteKey_WithAggregate(prevCache, id) ==
    [k \in DOMAIN prevCache \ {id, ALL} |-> prevCache[k]]

\* delete newCache[id]
DeleteKey(prevCache, id) == [k \in DOMAIN prevCache \ {id} |-> prevCache[k]]


\* ------------------------------------------------------------------- state
VARIABLES
    topics,          \* ids of the subscribed topics (useState topics)
    topicSeq,        \* how many topic ids have been generated so far
    activeTopicId,   \* Null or a topic id
    viewMode,
    papersCache,     \* cache key -> list of papers; a key may be absent
    papers,          \* the list the feed shows (useState papers)
    bookmarkedIds,
    initialLoading,
    loadingMore,
    error,
    timer,           \* the 50 ms auto-fetch timer of the sync effect is armed
    started,         \* fetchPapers calls made so far in this session
    fetches,         \* slot -> Free or the fetchPapers call running in it
    mergeIn,         \* history: the inputs of the merge applied by MergeOnce
    abortLog,        \* history: the log of a call at the moment it was aborted
    probe            \* history: the last call of a paperService function, in and out

vars == <<topics, topicSeq, activeTopicId, viewMode, papersCache, papers, bookmarkedIds,
          initialLoading, loadingMore, error, timer, started, fetches, mergeIn, abortLog,
          probe>>

history == <<mergeIn, abortLog, probe>>

Slots == 1..MaxFetches
IsFree(f) == f.pc = "free"
FreeSlots == {i \in Slots : IsFree(fetches[i])}
FirstFree == CHOOSE i \in FreeSlots : \A j \in FreeSlots : i <= j

\* displayedPapers: the bookmark view shows the cached papers that are bookmarked.
AllCached(cache) == UNION {Range(cache[k]) : k \in DOMAIN cache}
BookmarkedPapers(cache, bm) == {p \in AllCached(cache) : p.id \in bm}
DisplayedIds ==
    IF viewMode = BOOKMARKS THEN {p.id : p \in BookmarkedPapers(papersCache, bookmarkedIds)}
    ELSE Ids(papers)
DisplayedEmpty == DisplayedIds = {}

\* The bookmarked ids as Array.from(bookmarkedIds).reverse() lists them; the
\* order of a Set is its insertion order, which the state does not record.
IdList(bm) == CHOOSE s \in [1..Cardinality(bm) -> bm] : Range(s) = bm

\* Variant of DisplayedBookmarks without the uniqueMap: every cached copy of
\* a bookmarked paper is listed.
DisplayedBookmarks_EveryCopy(cache, bm) ==
    LET keys == IdList(DOMAIN cache)
        Flat[n \in 0..Len(keys)] == IF n = 0 THEN <<>> ELSE Flat[n - 1] \o cache[keys[n]]
        Marked(p) == p.id \in bm
    IN  SelectSeq(Flat[Len(keys)], Marked)

\* displayedPapers in the bookmark view: uniqueMap holds one paper per cached
\* id, and the list is the bookmarked ids mapped through it, the ids that are
\* not cached filtered out.
DisplayedBookmarks(cache, bm) ==
    LET uniqueMap == [id \in {p.id : p \in AllCached(cache)} |->
                         CHOOSE p \in AllCached(cache) : p.id = id]
        ids == IdList(bm)
        Cached(id) == id \in DOMAIN uniqueMap
        shown == SelectSeq(ids, Cached)
    IN  [i \in 1..Len(shown) |-> uniqueMap[shown[i]]]

\* ------------------------------------ executeArxivQuery / performFetch
\* A call is a record; its log lists in order the backoff waits it made, the
\* requests it issued (endpoint, start, max_results) and the failures it saw.
NewCall(cacheKey, isLoadMore, forceRefresh, hasSignal, excludeTitles) ==
    [cacheKey |-> cacheKey, isLoadMore |-> isLoadMore, forceRefresh |-> forceRefresh,
     hasSignal |-> hasSignal, aborted |-> FALSE, attempt |-> 0, pc |-> "start",
     excludeTitles |-> excludeTitles,
     start |-> Len(excludeTitles),
     maxResults |-> IF cacheKey = ALL THEN AggPageSize ELSE TopicPageSize,
     log |-> <<>>, result |-> <<>>]

\* Variant of SignalAborted for a call that never looks at its signal.
SignalAborted_Ignored(f) == FALSE

\* signal?.aborted
SignalAborted(f) == f.hasSignal /\ f.aborted

\* Variant of Backoff with a constant delay.
Backoff_Flat(attempt) == BackoffBase

\* wait(300 * attempt)
Backoff(attempt) == BackoffBase * attempt

\* fetch(endpoints[attempt], { signal }): an aborted signal rejects with
\* AbortError before any request leaves; otherwise the request is issued.
IssueRequest(f) ==
    IF SignalAborted(f) THEN [f EXCEPT !.pc = "AbortError"]
    ELSE [f EXCEPT !.pc = "req",
                   !.log = Append(@, <<"req", Endpoints[f.attempt + 1], f.start, f.maxResults>>)]

\* performFetch(attempt) up to its first await that yields to the event loop.
PerformFetch(f, attempt) ==
    IF SignalAborted(f) THEN [f EXCEPT !.pc = "AbortError"]
    ELSE IF attempt > 0
         THEN [f EXCEPT !.attempt = attempt, !.pc = "wait",
                        !.log = Append(@, <<"wait", Backoff(attempt)>>)]
         ELSE IssueRequest([f EXCEPT !.attempt = attempt])

\* The catch branch of performFetch for an error other than AbortError.
OnFailure(f) ==
    LET g == [f EXCEPT !.log = Append(@, <<"fail", Endpoints[f.attempt + 1]>>)]
    IN  IF g.attempt < Len(Endpoints) - 1 THEN PerformFetch(g, g.attempt + 1)
        ELSE [g EXCEPT !.pc = "return", !.result = <<>>]

\* The response parsed into a page of entries, which performFetch returns.
OnSuccess(f, page) == [f EXCEPT !.pc = "return", !.result = page]

\* ------------------------------------------------ render and effects
\* The validation effect and the sync effect, run after a render in which one
\* of activeTopicId, viewMode, papersCache, topics, bookmarkedIds changed
\* (fetchPapers is re-created whenever one of its dependencies changes, and
\* the sync effect depends on fetchPapers).  The cleanup of the previous run
\* clears its timer and aborts its controller.
AbortSignalled(fs) ==
    [i \in Slots |-> IF ~IsFree(fs[i]) /\ fs[i].hasSignal
                     THEN [fs[i] EXCEPT !.aborted = TRUE] ELSE fs[i]]

\* Variant of ValidActive that keeps whatever id is selected.
ValidActive_Keep(a, t) == a

\* The validation effect: an active id that no topic carries becomes null.
ValidActive(a, t) == IF a # Null /\ a \notin t THEN Null ELSE a

\* Variant of AutoFetchDue that takes an empty entry for a missing one.
AutoFetchDue_EmptyToo(v, c, key) == v = FEED /\ (key \notin DOMAIN c \/ c[key] = <<>>)

\* The branch of the sync effect that arms the auto-fetch timer:
\* viewMode === FEED and papersCache[cacheKey] === undefined.
AutoFetchDue(v, c, key) == v = FEED /\ key \notin DOMAIN c

Commit(a, v, c, t, b, il, lm, er, fs) ==
    LET a1 == ValidActive(a, t)
        key == CacheKeyOf(a1)
        cached == v = FEED /\ key \in DOMAIN c
        miss == AutoFetchDue(v, c, key)
    IN  /\ activeTopicId' = a1
        /\ viewMode' = v
        /\ papersCache' = c
        /\ topics' = t
        /\ bookmarkedIds' = b
        /\ papers' = IF cached THEN c[key] ELSE IF miss THEN <<>> ELSE papers
        /\ initialLoading' = IF cached /\ Len(c[key]) > 0 THEN FALSE ELSE il
        /\ loadingMore' = lm
        /\ error' = IF cached THEN Null ELSE er
        /\ timer' = miss
        /\ fetches' = AbortSignalled(fs)

\* ------------------------------------------------------- fetchPapers
\* Variant of MergeKey that reads the key active when the call ends.
MergeKey_Current(f, active) == CacheKeyOf(active)

\* The key the setPapersCache updater writes: the cacheKey constant that the
\* call captured when it started.
MergeKey(f, active) == f.cacheKey

\* finally { if (!signal?.aborted) { setInitialLoading(false); setLoadingMore(false) } }
FinallyClears(f) == ~SignalAborted(f)

\* Variant of CatchSetsError without the AbortError test.
CatchSetsError_Always(errName) == TRUE

\* catch (err) { if (err.name === 'AbortError') return; ... setError(...) }
CatchSetsError(errName) == errName # "AbortError"

\* The awaited service call threw AbortError.
CancelExit(i, f) ==
    /\ fetches' = [fetches EXCEPT ![i] = Free]
    /\ initialLoading' = IF FinallyClears(f) THEN FALSE ELSE initialLoading
    /\ loadingMore' = IF FinallyClears(f) THEN FALSE ELSE loadingMore
    /\ error' = IF CatchSetsError("AbortError") THEN ErrMsg ELSE error
    /\ UNCHANGED <<topics, topicSeq, activeTopicId, viewMode, papersCache, papers,
                   bookmarkedIds, timer, started>>

\* The awaited service call returned f.result, the page executeArxivQuery
\* parsed (the empty list when every endpoint failed).
Finish(i, f) ==
    LET newPapers == ServiceResult(f.result, f.excludeTitles)
        c == Merge(papersCache, MergeKey(f, activeTopicId), newPapers, f.forceRefresh)
        clears == FinallyClears(f)
    IN  /\ Commit(activeTopicId, viewMode, c, topics, bookmarkedIds,
                  IF clears THEN FALSE ELSE initialLoading,
                  IF clears THEN FALSE ELSE loadingMore,
                  error, [fetches EXCEPT ![i] = Free])
        /\ UNCHANGED <<topicSeq, started>>

\* The call in slot i moved on to f1.
Continue(i, f1) ==
    IF f1.pc = "AbortError" THEN CancelExit(i, f1)
    ELSE IF f1.pc = "return" THEN Finish(i, f1)
    ELSE /\ fetches' = [fetches EXCEPT ![i] = f1]
         /\ UNCHANGED <<topics, topicSeq, activeTopicId, viewMode, papersCache, papers,
                        bookmarkedIds, initialLoading, loadingMore, error, timer, started>>

\* Variant of TopicMissing that never finds the topic missing.
TopicMissing_Never(cacheKey, active, t) == FALSE

\* cacheKey !== "all" && !topics.find(t => t.id === activeTopicId)
TopicMissing(cacheKey, active, t) == cacheKey # ALL /\ active \notin t

\* fetchPapers(isLoadMore, forceRefresh, signal) up to its first await; tm is
\* what becomes of the auto-fetch timer.
StartFetch(isLoadMore, forceRefresh, hasSignal, tm) ==
    LET cacheKey == CacheKeyOf(activeTopicId)
        currentPapers == IF isLoadMore /\ cacheKey \in DOMAIN papersCache
                         THEN papersCache[cacheKey] ELSE <<>>
        f0 == NewCall(cacheKey, isLoadMore, forceRefresh, hasSignal, Titles(currentPapers))
    IN  IF TopicMissing(cacheKey, activeTopicId, topics)
        THEN /\ timer' = tm
             /\ UNCHANGED <<topics, topicSeq, activeTopicId, viewMode, papersCache, papers,
                            bookmarkedIds, initialLoading, loadingMore, error, fetches,
                            started>>
        ELSE IF cacheKey = ALL /\ topics = {}
        THEN \* fetchAggregatedPapers returns [] before any await on the network
             /\ started < MaxStarts
             /\ started' = started + 1
             /\ Commit(activeTopicId, viewMode,
                       Merge(papersCache, MergeKey(f0, activeTopicId), <<>>, forceRefresh),
                       topics, bookmarkedIds, FALSE, FALSE, Null, fetches)
             /\ UNCHANGED topicSeq
        ELSE /\ FreeSlots # {}
             /\ started < MaxStarts
             /\ started' = started + 1
             /\ LET f1 == IF cacheKey = ALL /\ BookmarkedPapers(papersCache, bookmarkedIds) # {}
                          THEN [f0 EXCEPT !.pc = "ai"]
                          ELSE PerformFetch(f0, 0)
                IN  fetches' = [fetches EXCEPT ![FirstFree] = f1]
             /\ initialLoading' = IF isLoadMore THEN initialLoading ELSE TRUE
             /\ loadingMore' = IF isLoadMore THEN TRUE ELSE loadingMore
             /\ error' = Null
             /\ timer' = tm
             /\ UNCHANGED <<topics, topicSeq, activeTopicId, viewMode, papersCache, papers,
                            bookmarkedIds>>

\* ------------------------------------------------------------- actions
\* The 50 ms timer of the sync effect fires.
TimerFire ==
    /\ timer
    /\ StartFetch(FALSE, FALSE, TRUE, FALSE)
    /\ UNCHANGED history

\* The IntersectionObserver callback of the infinite-scroll effect.
LoadMoreGate ==
    /\ ~initialLoading /\ ~loadingMore /\ error = Null
    /\ viewMode = FEED /\ Len(papers) > 0

LoadMore ==
    /\ LoadMoreGate
    /\ StartFetch(TRUE, FALSE, FALSE, timer)
    /\ UNCHANGED history

\* handleManualRefresh, from the Refresh, Retry or Try Again button.
RefreshButton == viewMode = FEED /\ ~(initialLoading \/ loadingMore)
RetryButton == viewMode # MANAGE /\ error # Null
TryAgainButton == viewMode = FEED /\ ~initialLoading /\ error = Null /\ DisplayedEmpty

ManualRefresh ==
    /\ RefreshButton \/ RetryButton \/ TryAgainButton
    /\ StartFetch(FALSE, TRUE, FALSE, timer)
    /\ UNCHANGED history

\* getAiEnhancedKeywords settled; executeArxivQuery starts.
AiDone(i) ==
    /\ fetches[i].pc = "ai"
    /\ Continue(i, PerformFetch(fetches[i], 0))
    /\ UNCHANGED history

\* The backoff wait is over; fetch() is called.
WaitDone(i) ==
    /\ fetches[i].pc = "wait"
    /\ Continue(i, IssueRequest(fetches[i]))
    /\ UNCHANGED history

\* The pending fetch() rejects with AbortError.
RequestAborted(i) ==
    /\ fetches[i].pc = "req"
    /\ SignalAborted(fetches[i])
    /\ CancelExit(i, fetches[i])
    /\ UNCHANGED history

\* The request failed: transport error, bad status, HTML or unparsable body.
ResponseFail(i) ==
    /\ fetches[i].pc = "req"
    /\ ~SignalAborted(fetches[i])
    /\ Continue(i, OnFailure(fetches[i]))
    /\ UNCHANGED history

\* The request succeeded and its body parsed into a page of entries.
ResponseOk(i) ==
    /\ fetches[i].pc = "req"
    /\ ~SignalAborted(fetches[i])
    /\ \E page \in Pages : Continue(i, OnSuccess(fetches[i], page))
    /\ UNCHANGED history

\* onSelectTopic of the sidebar: setActiveTopicId(id); setViewMode(FEED).
SelectTopic(id) ==
    /\ id \in topics \cup {Null}
    /\ id # activeTopicId \/ viewMode # FEED
    /\ Commit(id, FEED, papersCache, topics, bookmarkedIds,
              initialLoading, loadingMore, error, fetches)
    /\ UNCHANGED <<topicSeq, started, history>>

\* The view buttons of the sidebar.
SetViewMode(m) ==
    /\ m # viewMode
    /\ Commit(activeTopicId, m, papersCache, topics, bookmarkedIds,
              initialLoading, loadingMore, error, fetches)
    /\ UNCHANGED <<topicSeq, started, history>>

\* handleToggleBookmark, from a displayed PaperCard.
ToggleBookmark(id) ==
    /\ viewMode # MANAGE
    /\ id \in DisplayedIds
    /\ id \in bookmarkedIds \/ Cardinality(bookmarkedIds) < MaxBookmarks
    /\ Commit(activeTopicId, viewMode, papersCache, topics,
              IF id \in bookmarkedIds THEN bookmarkedIds \ {id} ELSE bookmarkedIds \cup {id},
              initialLoading, loadingMore, error, fetches)
    /\ UNCHANGED <<topicSeq, started, history>>

\* handleAddTopic, from the subscription view; limit caps the number of ids
\* ever created.
AddTopicWithin(limit) ==
    /\ viewMode = MANAGE
    /\ topicSeq < limit
    /\ topicSeq' = topicSeq + 1
    /\ Commit(activeTopicId, viewMode, papersCache, topics \cup {IdStr(topicSeq + 1)},
              bookmarkedIds, initialLoading, loadingMore, error, fetches)
    /\ UNCHANGED <<started, history>>

AddTopic == AddTopicWithin(MaxTopics)

\* handleDeleteTopic, from the subscription view.
DeleteTopic(id) ==
    /\ viewMode = MANAGE
    /\ id \in topics
    /\ Commit(IF activeTopicId = id THEN Null ELSE activeTopicId, viewMode,
              DeleteKey(papersCache, id), topics \ {id}, bookmarkedIds,
              initialLoading, loadingMore, error, fetches)
    /\ UNCHANGED <<topicSeq, started, history>>

NoMerge == [n |-> 0]
NoAbort == <<"none">>
NoProbe == [fn |-> "none"]

\* The state after the first render and its effects, restored from a storage
\* that holds no topic and no cache: the sync effect found no entry for "all"
\* and armed its timer.
Init ==
    /\ topics = {}
    /\ topicSeq = 0
    /\ activeTopicId = Null
    /\ viewMode = FEED
    /\ papersCache = <<>>
    /\ papers = <<>>
    /\ bookmarkedIds = {}
    /\ initialLoading = FALSE
    /\ loadingMore = FALSE
    /\ error = Null
    /\ timer = TRUE
    /\ started = 0
    /\ fetches = [i \in Slots |-> Free]
    /\ mergeIn = NoMerge
    /\ abortLog = NoAbort
    /\ probe = NoProbe

Next ==
    \/ TimerFire
    \/ LoadMore
    \/ ManualRefresh
    \/ \E i \in Slots : AiDone(i)
    \/ \E i \in Slots : WaitDone(i)
    \/ \E i \in Slots : RequestAborted(i)
    \/ \E i \in Slots : ResponseFail(i)
    \/ \E i \in Slots : ResponseOk(i)
    \/ \E id \in TopicIds \cup {Null} : SelectTopic(id)
    \/ \E m \in ViewModes : SetViewMode(m)
    \/ \E id \in PaperIds : ToggleBookmark(id)
    \/ AddTopic
    \/ \E id \in TopicIds : DeleteTopic(id)

Spec == Init /\ [][Next]_vars

\* The timer callback runs once its 50 ms are over, and a call that is
\* waiting, for its backoff or for the network, is eventually resumed.
NetworkStep ==
    \E i \in Slots :
        AiDone(i) \/ WaitDone(i) \/ RequestAborted(i) \/ ResponseFail(i) \/ ResponseOk(i)

SpecLive == Init /\ [][Next]_vars /\ WF_vars(TimerFire) /\ WF_vars(NetworkStep)

\* ---------------------------------------------------------------------
\* executeArxivQuery on its own: one call in slot 1, driven by the network
\* and by a caller that may abort the signal at any moment.
AppIdle ==
    /\ topics = {IdStr(1)}
    /\ topicSeq = 1
    /\ viewMode = FEED
    /\ papersCache = <<>>
    /\ papers = <<>>
    /\ bookmarkedIds = {}
    /\ initialLoading = FALSE
    /\ loadingMore = FALSE
    /\ error = Null
    /\ timer = FALSE
    /\ started = 0

appVars == <<topics, topicSeq, activeTopicId, viewMode, papersCache, papers, bookmarkedIds,
             initialLoading, loadingMore, error, timer, started>>

TheCall == fetches[1]

ExecInit ==
    /\ AppIdle
    /\ \E a \in {Null, IdStr(1)}, hasSignal \in BOOLEAN, n \in 0..MaxStartIndex :
          /\ activeTopicId = a
          /\ fetches = [i \in Slots |->
                IF i = 1
                THEN NewCall(CacheKeyOf(a), n > 0, FALSE, hasSignal, [j \in 1..n |-> P3.title])
                ELSE Free]
    /\ mergeIn = [n |-> 0]
    /\ abortLog = <<"none">>
    /\ probe = NoProbe

ExecSet(f1) ==
    /\ fetches' = [fetches EXCEPT ![1] = f1]
    /\ UNCHANGED <<appVars, mergeIn, probe>>

\* executeArxivQuery is called: performFetch(0).
ExecBegin ==
    /\ TheCall.pc = "start"
    /\ ExecSet(PerformFetch(TheCall, 0))
    /\ UNCHANGED abortLog

ExecWaitDone ==
    /\ TheCall.pc = "wait"
    /\ ExecSet(IssueRequest(TheCall))
    /\ UNCHANGED abortLog

ExecRequestAborted ==
    /\ TheCall.pc = "req"
    /\ SignalAborted(TheCall)
    /\ ExecSet([TheCall EXCEPT !.pc = "AbortError"])
    /\ UNCHANGED abortLog

ExecResponseFail ==
    /\ TheCall.pc = "req"
    /\ ~SignalAborted(TheCall)
    /\ ExecSet(OnFailure(TheCall))
    /\ UNCHANGED abortLog

ExecResponseOk ==
    /\ TheCall.pc = "req"
    /\ ~SignalAborted(TheCall)
    /\ \E page \in Pages : ExecSet(OnSuccess(TheCall, page))
    /\ UNCHANGED abortLog

\* The caller's controller.abort().
ExecAbort ==
    /\ TheCall.pc \in {"start", "wait", "req"}
    /\ TheCall.hasSignal
    /\ ~TheCall.aborted
    /\ ExecSet([TheCall EXCEPT !.aborted = TRUE])
    /\ abortLog' = TheCall.log

ExecNext ==
    \/ ExecBegin
    \/ ExecWaitDone
    \/ ExecRequestAborted
    \/ ExecResponseFail
    \/ ExecResponseOk
    \/ ExecAbort

SpecExec == ExecInit /\ [][ExecNext]_vars

\* ---------------------------------------------------------------------
\* The setPapersCache updater on its own: any small cache, any batch, the
\* same batch merged once and then once more.
P4 == [id |-> "p1", title |-> <<"C", "0">>, publishDate |-> 1]
MergeUniverse == Universe \cup {P4}
Batches == UNION {[1..n -> MergeUniverse] : n \in 0..MaxBatch}
PrevLists == UNION {[1..n -> MergeUniverse] : n \in 0..MaxPrev}
MergeKeys == {ALL, IdStr(1)}
SmallCaches == UNION {[K -> PrevLists] : K \in SUBSET MergeKeys}

MergeInit ==
    /\ topics = {IdStr(1)}
    /\ topicSeq = 1
    /\ activeTopicId = Null
    /\ viewMode = BOOKMARKS
    /\ papersCache \in SmallCaches
    /\ papers = <<>>
    /\ bookmarkedIds = {}
    /\ initialLoading = FALSE
    /\ loadingMore = FALSE
    /\ error = Null
    /\ timer = FALSE
    /\ started = 0
    /\ fetches = [i \in Slots |-> Free]
    /\ mergeIn = [n |-> 0]
    /\ abortLog = <<"none">>
    /\ probe = NoProbe

mergeFrame == <<topics, topicSeq, activeTopicId, viewMode, papers, bookmarkedIds,
                initialLoading, loadingMore, error, timer, started, fetches, abortLog, probe>>

MergeOnce ==
    /\ mergeIn.n = 0
    /\ \E cacheKey \in MergeKeys, incoming \in Batches, forceRefresh \in BOOLEAN :
          /\ papersCache' = Merge(papersCache, cacheKey, incoming, forceRefresh)
          /\ mergeIn' = [n |-> 1, cacheKey |-> cacheKey, incoming |-> incoming,
                         forceRefresh |-> forceRefresh, prevCache |-> papersCache,
                         once |-> <<>>]
    /\ UNCHANGED mergeFrame

MergeAgain ==
    /\ mergeIn.n = 1
    /\ papersCache' = Merge(papersCache, mergeIn.cacheKey, mergeIn.incoming,
                            mergeIn.forceRefresh)
    /\ mergeIn' = [mergeIn EXCEPT !.n = 2, !.once = papersCache]
    /\ UNCHANGED mergeFrame

MergeNext == MergeOnce \/ MergeAgain

SpecMerge == MergeInit /\ [][MergeNext]_vars

\* ---------------------------------------------------------------------
\* The error banner on its own.  The state is the one the catch and finally
\* blocks of fetchPapers leave when the awaited service call threw an error
\* other than AbortError (thrown outside the try of performFetch, which turns
\* every request failure into a retry or an empty list): the message is set,
\* both loading flags are down, the cache is as it was and no timer is armed.
RetryInit ==
    /\ topics = {IdStr(1)}
    /\ topicSeq = 1
    /\ activeTopicId \in {Null, IdStr(1)}
    /\ viewMode = FEED
    /\ papersCache \in SmallCaches
    /\ papers = IF CacheKeyOf(activeTopicId) \in DOMAIN papersCache
                THEN papersCache[CacheKeyOf(activeTopicId)] ELSE <<>>
    /\ bookmarkedIds = {}
    /\ initialLoading = FALSE
    /\ loadingMore = FALSE
    /\ error = ErrMsg
    /\ timer = FALSE
    /\ started = 0
    /\ fetches = [i \in Slots |-> Free]
    /\ mergeIn = [n |-> 0]
    /\ abortLog = <<"none">>
    /\ probe = NoProbe

RetryNext ==
    \/ ManualRefresh
    \/ \E i \in Slots : WaitDone(i)
    \/ \E i \in Slots : ResponseFail(i)
    \/ \E i \in Slots : ResponseOk(i)

SpecRetry == RetryInit /\ [][RetryNext]_vars

\* ---------------------------------------------------------------------
\* The subscription view on its own: several topics subscribed, any small
\* cache and bookmark set, nothing in flight; the user deletes topics and
\* moves between the views.
ListedIds == {IdStr(n) : n \in 1..MaxListed}
\* Entries of at most one paper are enough for a deletion.
Singles == {<<>>} \cup {<<p>> : p \in Universe}
ListedCaches == UNION {[K -> Singles] : K \in SUBSET ({ALL} \cup ListedIds)}

TopicsInit ==
    /\ topics = ListedIds
    /\ topicSeq = MaxListed
    /\ activeTopicId \in ListedIds \cup {Null}
    /\ viewMode = MANAGE
    /\ papersCache \in ListedCaches
    /\ papers = <<>>
    /\ bookmarkedIds \in SUBSET PaperIds
    /\ initialLoading = FALSE
    /\ loadingMore = FALSE
    /\ error = Null
    /\ timer = FALSE
    /\ started = 0
    /\ fetches = [i \in Slots |-> Free]
    /\ mergeIn = [n |-> 0]
    /\ abortLog = <<"none">>
    /\ probe = NoProbe

TopicsNext ==
    \/ \E id \in ListedIds : DeleteTopic(id)
    \/ \E m \in ViewModes : SetViewMode(m)
    \/ \E id \in ListedIds \cup {Null} : SelectTopic(id)

SpecTopics == TopicsInit /\ [][TopicsNext]_vars

\* The same view with one more subscription to make: the user adds a topic
\* to the listed ones, deletes topics and moves between the views.
SubscribeNext ==
    \/ AddTopicWithin(MaxListed + 1)
    \/ \E id \in ListedIds \cup {IdStr(MaxListed + 1)} : DeleteTopic(id)
    \/ \E m \in ViewModes : SetViewMode(m)
    \/ \E id \in ListedIds \cup {IdStr(MaxListed + 1), Null} : SelectTopic(id)

SpecSubscribe == TopicsInit /\ [][SubscribeNext]_vars

\* ---------------------------------------------------------------------
\* The first render on its own.  The state is the one useState restored from
\* storage, any topic list, active id, view and small cache, after the effects
\* of the first render ran: the sync effect armed its timer on a missing
\* entry, and the update the validation effect asked for is still pending.
\* probe records that update and the calls of fetchPapers.
RestoreInit ==
    /\ topics \in SUBSET ListedIds
    /\ topicSeq = MaxListed
    /\ activeTopicId \in ListedIds \cup {Null}
    /\ viewMode \in ViewModes
    /\ papersCache \in ListedCaches
    /\ papers = IF CacheKeyOf(activeTopicId) \in DOMAIN papersCache
                THEN papersCache[CacheKeyOf(activeTopicId)] ELSE <<>>
    /\ bookmarkedIds = {}
    /\ initialLoading = FALSE
    /\ loadingMore = FALSE
    /\ error = Null
    /\ timer = AutoFetchDue(viewMode, papersCache, CacheKeyOf(activeTopicId))
    /\ started = 0
    /\ fetches = [i \in Slots |-> Free]
    /\ mergeIn = [n |-> 0]
    /\ abortLog = <<"none">>
    /\ probe = [fn |-> "restore", validated |-> FALSE, was |-> Null, among |-> {},
                calls |-> {}]

\* fetchPapers is called by the timer, the observer or a button, each of
\* them once.
InvokeFetch ==
    /\ \E caller \in {"timer", "observer", "button"} \ probe.calls :
          /\ probe' = [probe EXCEPT !.calls = @ \cup {caller}]
          /\ IF caller = "timer" THEN timer /\ StartFetch(FALSE, FALSE, TRUE, FALSE)
             ELSE IF caller = "observer"
             THEN LoadMoreGate /\ StartFetch(TRUE, FALSE, FALSE, timer)
             ELSE /\ RefreshButton \/ RetryButton \/ TryAgainButton
                  /\ StartFetch(FALSE, TRUE, FALSE, timer)
    /\ UNCHANGED <<mergeIn, abortLog>>

\* The render that applies the update of the validation effect.
Validate ==
    /\ ~probe.validated
    /\ probe' = [probe EXCEPT !.validated = TRUE, !.was = activeTopicId,
                              !.among = topics]
    /\ Commit(activeTopicId, viewMode, papersCache, topics, bookmarkedIds,
              initialLoading, loadingMore, error, fetches)
    /\ UNCHANGED <<topicSeq, started, mergeIn, abortLog>>

RestoreNext ==
    \/ InvokeFetch
    \/ Validate
    \/ probe.validated /\ \E id \in ListedIds : DeleteTopic(id)
    \/ probe.validated /\ \E m \in ViewModes : SetViewMode(m)
    \/ probe.validated /\ \E id \in ListedIds \cup {Null} : SelectTopic(id)

\* Effects run after every render.
SpecRestore == RestoreInit /\ [][RestoreNext]_vars /\ WF_vars(Validate)

\* ---------------------------------------------------------------------
\* The infinite scroll on its own: a feed restored from a small cache, the
\* sentinel below the list, the observer and the upstream.  probe holds
\* whether the sentinel intersects the viewport (visible), whether the
\* observer has a notification to deliver (notify), and whether the last
\* load-more ended without lengthening the entry and the user has not
\* scrolled since (stale).

\* The sentinel <div ref={observerTarget}> is part of the page.
SentinelRendered(v, il, er, shown) == v = FEED /\ ~il /\ shown # <<>> /\ er = Null

ScrollInit ==
    /\ topics = {IdStr(1)}
    /\ topicSeq = 1
    /\ activeTopicId \in {Null, IdStr(1)}
    /\ viewMode = FEED
    /\ papersCache \in SmallCaches
    /\ CacheKeyOf(activeTopicId) \in DOMAIN papersCache
    /\ papers = papersCache[CacheKeyOf(activeTopicId)]
    /\ bookmarkedIds = {}
    /\ initialLoading = FALSE
    /\ loadingMore = FALSE
    /\ error = Null
    /\ timer = FALSE
    /\ started = 0
    /\ fetches = [i \in Slots |-> Free]
    /\ mergeIn = [n |-> 0]
    /\ abortLog = <<"none">>
    /\ probe \in [fn : {"scroll"}, visible : BOOLEAN,
                   notify : {SentinelRendered(viewMode, initialLoading, error, papers)},
                   stale : {FALSE}]

\* The user scrolls the sentinel into or out of the viewport; the observer
\* queues a notification for the crossing of its threshold.
Scroll ==
    /\ SentinelRendered(viewMode, initialLoading, error, papers)
    /\ probe' = [probe EXCEPT !.visible = ~@, !.notify = TRUE, !.stale = FALSE]
    /\ UNCHANGED <<appVars, fetches, mergeIn, abortLog>>

\* The observer delivers its notification.  A call of fetchPapers raises
\* loadingMore, the scroll effect runs again, and the observer it creates
\* queues its first notification as soon as it observes the sentinel.
ObserverCallback ==
    /\ probe.notify
    /\ IF probe.visible /\ LoadMoreGate
       THEN /\ StartFetch(TRUE, FALSE, FALSE, timer)
            /\ probe' = [probe EXCEPT !.notify =
                             SentinelRendered(viewMode', initialLoading', error', papers')]
       ELSE /\ probe' = [probe EXCEPT !.notify = FALSE]
            /\ UNCHANGED <<appVars, fetches>>
    /\ UNCHANGED <<mergeIn, abortLog>>

\* The upstream answers with a page.  The merge and the finally block change
\* papersCache and loadingMore, so the scroll effect runs again with a new
\* observer; papers appended to the list may push the sentinel out of the
\* viewport, a list of the same length leaves it where it was.
ScrollResponseOk(i) ==
    /\ fetches[i].pc = "req"
    /\ \E page \in Pages : Continue(i, OnSuccess(fetches[i], page))
    /\ LET grown == Len(papers') > Len(papers)
       IN  \E below \in BOOLEAN :
              probe' = [probe EXCEPT
                           !.visible = IF grown THEN @ /\ ~below ELSE @,
                           !.notify = SentinelRendered(viewMode', initialLoading',
                                                       error', papers'),
                           !.stale = ~grown]
    /\ UNCHANGED <<mergeIn, abortLog>>

ScrollNext ==
    \/ Scroll
    \/ ObserverCallback
    \/ \E i \in Slots : ScrollResponseOk(i)

SpecScroll == ScrollInit /\ [][ScrollNext]_vars

\* ---------------------------------------------------------------------
\* Persistence on its own: a feed restored from storage, a clock, the
\* debounce timer of the cache persistence effect and a storage whose
\* setItem may fail.  probe holds the clock (now), the tick at which the
\* timer is due (-1: no timer), the tick of the last cache mutation (-1:
\* none), whether the cache changed since the last write (dirty), the setItem
\* calls of the last timeout (tried) and the storage.  A stored value stands
\* for its JSON text.  Two calls of fetchPapers are left to the session.

\* Entries to persist: empty, one paper, and one paper more than the prune
\* keeps.
PersistLists ==
    {<<>>, <<P1>>,
     [n \in 1..PruneCount + 1 |->
         [id |-> ToString(n), title |-> <<"T", ToString(n)>>,
          publishDate |-> PruneCount + 2 - n]]}

\* Variant of ReducedCache that truncates every entry and drops none.
ReducedCache_EveryKey(cache, active) ==
    [k \in DOMAIN cache |->
        SubSeq(cache[k], 1, IF Len(cache[k]) < PruneCount THEN Len(cache[k])
                             ELSE PruneCount)]

\* reducedCache: the entry of activeTopicId || 'all', if there is one, cut by
\* slice(0, 20).
ReducedCache(cache, active) ==
    LET currentKey == CacheKeyOf(active)
    IN  [k \in {currentKey} \cap DOMAIN cache |->
            SubSeq(cache[k], 1, IF Len(cache[k]) < PruneCount THEN Len(cache[k])
                                 ELSE PruneCount)]

\* saveCriticalData(key, value) on a storage st.  outcome is what setItem
\* does: "saved"; "retried", a quota error and a retry that succeeds once
\* ss_cache is removed; "lost", a quota error and a retry that fails too;
\* "failed", another error, which is swallowed.
SaveCritical(st, key, value, outcome) ==
    LET freed == [st EXCEPT !.ss_cache = <<"absent">>]
    IN  IF outcome = "saved" THEN [st EXCEPT ![key] = value]
        ELSE IF outcome = "retried" THEN [freed EXCEPT ![key] = value]
        ELSE IF outcome = "lost" THEN freed
        ELSE st

PersistInit ==
    /\ topics = {IdStr(1)}
    /\ topicSeq = 1
    /\ activeTopicId \in {Null, IdStr(1)}
    /\ viewMode = FEED
    /\ papersCache \in UNION {[K -> PersistLists] : K \in SUBSET MergeKeys}
    /\ papers = IF CacheKeyOf(activeTopicId) \in DOMAIN papersCache
                THEN papersCache[CacheKeyOf(activeTopicId)] ELSE <<>>
    /\ bookmarkedIds = {}
    /\ initialLoading = FALSE
    /\ loadingMore = FALSE
    /\ error = Null
    /\ timer = AutoFetchDue(viewMode, papersCache, CacheKeyOf(activeTopicId))
    /\ started = MaxStarts - 2
    /\ fetches = [i \in Slots |-> Free]
    /\ mergeIn = [n |-> 0]
    /\ abortLog = <<"none">>
    /\ probe = [fn |-> "persist", now |-> 0, due |-> DebounceTicks, mutatedAt |-> -1,
                dirty |-> FALSE, tried |-> <<>>,
                storage |-> [ss_cache |-> <<"json", papersCache>>,
                             ss_topics |-> topics,
                             ss_activeTopicId |-> activeTopicId,
                             ss_bookmarks |-> bookmarkedIds,
                             ss_theme |-> FALSE]]

\* Time passes, up to the moment the debounce timer is due.
Tick ==
    /\ probe.now < MaxClock
    /\ probe.due = -1 \/ probe.now < probe.due
    /\ probe' = [probe EXCEPT !.now = @ + 1]
    /\ UNCHANGED <<appVars, fetches, mergeIn, abortLog>>

\* onSelectTopic, followed by the effects that depend on activeTopicId:
\* saveCriticalData('ss_activeTopicId', ...) and the cache persistence effect,
\* whose cleanup clears the timer and which sets a new one.
PersistSelectTopic(id) ==
    /\ id \in topics \cup {Null}
    /\ id # activeTopicId
    /\ Commit(id, FEED, papersCache, topics, bookmarkedIds,
              initialLoading, loadingMore, error, fetches)
    /\ \E outcome \in {"saved", "retried", "lost", "failed"} :
          probe' = [probe EXCEPT
                       !.due = probe.now + DebounceTicks,
                       !.storage = SaveCritical(@, "ss_activeTopicId", id, outcome)]
    /\ UNCHANGED <<topicSeq, started, mergeIn, abortLog>>

\* The upstream answers a call with a page; the merge replaces papersCache,
\* and the cache persistence effect clears its timer and sets a new one.
PersistResponseOk(i) ==
    /\ fetches[i].pc = "req"
    /\ ~SignalAborted(fetches[i])
    /\ \E page \in Pages : Continue(i, OnSuccess(fetches[i], page))
    /\ probe' = [probe EXCEPT !.due = probe.now + DebounceTicks,
                              !.mutatedAt = probe.now, !.dirty = TRUE]
    /\ UNCHANGED <<mergeIn, abortLog>>

\* The debounce timer fires.  failures is the number of setItem calls that
\* throw: none, the one with the whole cache, or that one and the one with
\* the reduced cache, after which the key is removed.
CacheTimeout ==
    /\ probe.due = probe.now
    /\ \E failures \in 0..2 :
          LET whole == [value |-> papersCache, ok |-> failures = 0]
              reduced == [value |-> ReducedCache(papersCache, activeTopicId),
                          ok |-> failures = 1]
          IN  probe' = [probe EXCEPT
                           !.due = -1,
                           !.dirty = FALSE,
                           !.tried = IF failures = 0 THEN <<whole>> ELSE <<whole, reduced>>,
                           !.storage.ss_cache =
                               IF failures = 0 THEN <<"json", whole.value>>
                               ELSE IF failures = 1 THEN <<"json", reduced.value>>
                               ELSE <<"absent">>]
    /\ UNCHANGED <<appVars, fetches, mergeIn, abortLog>>

PersistNext ==
    \/ Tick
    \/ CacheTimeout
    \/ \E id \in MergeKeys \cup {Null} : PersistSelectTopic(id)
    \/ \E i \in Slots : PersistResponseOk(i)
    \/ TimerFire
    \/ ManualRefresh

SpecPersist == PersistInit /\ [][PersistNext]_vars

\* ---------------------------------------------------------------------
\* The two service functions on their own, from the page executeArxivQuery
\* returned to the list they return: one call, any page, any excludeTitles.
IdleInit ==
    /\ AppIdle
    /\ activeTopicId = Null
    /\ fetches = [i \in Slots |-> Free]
    /\ mergeIn = [n |-> 0]
    /\ abortLog = <<"none">>
    /\ probe = NoProbe

probeFrame == <<appVars, fetches, mergeIn, abortLog>>

ExcludeLists == UNION {[1..n -> {p.title : p \in MergeUniverse}] : n \in 0..MaxPrev}

ReturnFromTopic ==
    /\ probe = NoProbe
    /\ \E page \in Batches, excludeTitles \in ExcludeLists :
          probe' = [fn |-> "fetchPapersForTopic", page |-> page,
                    excludeTitles |-> excludeTitles,
                    result |-> ServiceResult(page, excludeTitles)]
    /\ UNCHANGED probeFrame

ReturnFromAggregated ==
    /\ probe = NoProbe
    /\ \E page \in Batches, excludeTitles \in ExcludeLists :
          probe' = [fn |-> "fetchAggregatedPapers", page |-> page,
                    excludeTitles |-> excludeTitles,
                    result |-> ServiceResult(page, excludeTitles)]
    /\ UNCHANGED probeFrame

ServiceNext == ReturnFromTopic \/ ReturnFromAggregated

SpecService == IdleInit /\ [][ServiceNext]_vars

\* ---------------------------------------------------------------------
\* The query builders on their own: any topic of a small catalogue for
\* fetchPapersForTopic, any list of topics for fetchAggregatedPapers.
Keywords == {<<"deep">>, <<DQuote, "graph", Blank, "net", DQuote, Blank>>}
KeywordLists == UNION {[1..n -> Keywords] : n \in 0..MaxKeywords}
QueryTopics ==
    [category : {ComputerScience, Statistics, ElectricalEngineering},
     subCategory : {<<>>, ArtificialIntelligence, MachineLearning, SystemsAndControl,
                    UnlistedField},
     keywords : KeywordLists]
AggregatedTopics ==
    {[category |-> ComputerScience, subCategory |-> ArtificialIntelligence, keywords |-> <<>>],
     [category |-> Statistics, subCategory |-> MachineLearning, keywords |-> <<>>]}
TopicLists == UNION {[1..n -> AggregatedTopics] : n \in 0..MaxQueryTopics}
AiKeywordLists == {<<>>, << <<"deep">> >>}

BuildTopicQuery ==
    /\ probe = NoProbe
    /\ \E topic \in QueryTopics :
          probe' = [fn |-> "fetchPapersForTopic", topic |-> topic,
                    query |-> TopicQuery(topic)]
    /\ UNCHANGED probeFrame

BuildAggregatedQuery ==
    /\ probe = NoProbe
    /\ \E topicList \in TopicLists, aiKeywords \in AiKeywordLists :
          probe' = [fn |-> "fetchAggregatedPapers", topics |-> topicList,
                    aiKeywords |-> aiKeywords,
                    requests |-> AggregatedRequests(topicList, aiKeywords),
                    result |-> IF Len(topicList) = 0 THEN <<>>
                               ELSE ServiceResult(<<P1>>, <<>>)]
    /\ UNCHANGED probeFrame

QueryNext == BuildTopicQuery \/ BuildAggregatedQuery

SpecQuery == IdleInit /\ [][QueryNext]_vars

\* ---------------------------------------------------------------------
\* Properties.
Live(i) == ~IsFree(fetches[i]) /\ ~(fetches[i].hasSignal /\ fetches[i].aborted)
LiveFor(key) == {i \in Slots : Live(i) /\ fetches[i].cacheKey = key}
Started(i) == IsFree(fetches[i]) /\ ~IsFree(fetches'[i])
Ended(i) == ~IsFree(fetches[i]) /\ IsFree(fetches'[i])
CacheKeys == {ALL} \cup TopicIds
Entry(cache, k) == IF k \in DOMAIN cache THEN <<"list", cache[k]>> ELSE <<"absent">>

\* C1: in every reachable state no cache entry holds two papers with the
\* same normalized title.
C1_NoDuplicateTitles ==
    \A k \in DOMAIN papersCache :
        \A i, j \in 1..Len(papersCache[k]) :
            i # j => NormalizeTitle(papersCache[k][i].title)
                     # NormalizeTitle(papersCache[k][j].title)

\* C2: a call captures the key that is active when it starts, and when it
\* ends only the entry of that key may differ; every other key's entry (its
\* presence and its list) is as before.
C2_MergeUnderStartKey ==
    [][\A i \in Slots :
          /\ Started(i) => fetches'[i].cacheKey = CacheKeyOf(activeTopicId)
          /\ Ended(i) => \A k \in CacheKeys \ {fetches[i].cacheKey} :
                             Entry(papersCache', k) = Entry(papersCache, k)]_vars

\* C2 witness: a call that is not cancelled is waiting for its response while
\* another key has become the active one.
C2_Witness ==
    \E i \in Slots :
        /\ Live(i)
        /\ fetches[i].pc = "req"
        /\ fetches[i].cacheKey # CacheKeyOf(activeTopicId)
        /\ viewMode = FEED

\* C3: whenever a call ends and changes the cache, the key and the view under
\* which it started are still the current ones (a call overtaken by a topic
\* or view switch was cancelled and merges nothing).
C3_SwitchCancelsFetch ==
    [][\A i \in Slots :
          (Ended(i) /\ papersCache' # papersCache)
              => (CacheKeyOf(activeTopicId) = fetches[i].cacheKey /\ viewMode = FEED)]_vars

\* C4: at most one call that is not cancelled is in flight for any cache key.
C4_OneFetchPerKey ==
    \A key \in CacheKeys : Cardinality(LiveFor(key)) <= 1

\* C5: a load-more call starts only when no call is outstanding for its key,
\* no error is displayed and the view is the feed.
C5_LoadMoreAdmission ==
    [][\A i \in Slots :
          (Started(i) /\ fetches'[i].isLoadMore)
              => /\ LiveFor(fetches'[i].cacheKey) = {}
                 /\ error = Null
                 /\ viewMode = FEED]_vars

\* C6: once cancellation has been requested the call issues no further
\* request, makes no further wait or retry and returns no list: it can only
\* end with AbortError.  Cancelled before the first attempt, its log is empty.
C6_CancelStopsExecute ==
    (TheCall.pc # "free" /\ abortLog # <<"none">>)
        => /\ TheCall.log = abortLog
           /\ TheCall.pc \in {"start", "wait", "req", "AbortError"}

\* C6 witness: a call cancelled during the backoff before a retry has ended
\* with AbortError.
C6_Witness ==
    /\ TheCall.pc = "AbortError"
    /\ abortLog # <<"none">>
    /\ abortLog # <<>>
    /\ abortLog[Len(abortLog)][1] = "wait"

Failures(f) == Cardinality({n \in 1..Len(f.log) : f.log[n][1] = "fail"})

\* C7: a call that saw all three endpoints fail has tried the API, then
\* allorigins after 300 ms, then corsproxy after 600 ms, each once and in that
\* order with nothing before the first, and has returned the empty list.
C7_FallbackExhaustion ==
    (TheCall.pc # "free" /\ Failures(TheCall) = 3)
        => /\ TheCall.pc = "return"
           /\ TheCall.result = <<>>
           /\ TheCall.log =
                << <<"req", "export.arxiv.org", TheCall.start, TheCall.maxResults>>,
                   <<"fail", "export.arxiv.org">>,
                   <<"wait", 300>>,
                   <<"req", "api.allorigins.win", TheCall.start, TheCall.maxResults>>,
                   <<"fail", "api.allorigins.win">>,
                   <<"wait", 600>>,
                   <<"req", "corsproxy.io", TheCall.start, TheCall.maxResults>>,
                   <<"fail", "corsproxy.io">> >>

\* C7 witness: a call without a signal has returned after three failures.
C7_Witness ==
    /\ TheCall.pc = "return"
    /\ Failures(TheCall) = 3
    /\ ~TheCall.hasSignal

\* C8: when a cancelled call ends, the error state and the cache are what
\* they were.
C8_CancelIsSilent ==
    [][\A i \in Slots :
          (Ended(i) /\ fetches[i].hasSignal /\ fetches[i].aborted)
              => (error' = error /\ papersCache' = papersCache)]_vars

\* C8 witness: a cancelled call has ended; nothing is in flight any more and
\* the loading flag it set is still up, which only a cancelled exit leaves.
C8_Witness ==
    /\ initialLoading
    /\ \A i \in Slots : IsFree(fetches[i])
    /\ DOMAIN papersCache # {}
    /\ error = Null

\* C9: merging the same batch a second time leaves the cache as the first
\* merge left it.
C9_MergeIdempotent ==
    mergeIn.n = 2 => papersCache = mergeIn.once

\* C9 witness: a batch that overlaps the entry and extends it was merged twice.
C9_Witness ==
    /\ mergeIn.n = 2
    /\ ~mergeIn.forceRefresh
    /\ mergeIn.cacheKey \in DOMAIN mergeIn.prevCache
    /\ Ids(mergeIn.incoming) \cap Ids(mergeIn.prevCache[mergeIn.cacheKey]) # {}
    /\ Len(papersCache[mergeIn.cacheKey]) > Len(mergeIn.prevCache[mergeIn.cacheKey])

PrevEntry == IF mergeIn.cacheKey \in DOMAIN mergeIn.prevCache
             THEN mergeIn.prevCache[mergeIn.cacheKey] ELSE <<>>
UnseenIndexes ==
    {i \in 1..Len(mergeIn.incoming) :
        \A j \in 1..Len(PrevEntry) : PrevEntry[j].id # mergeIn.incoming[i].id}

\* C10: without forceRefresh the merged entry is the previous entry, element
\* for element, followed by the incoming papers whose id the previous entry
\* does not hold, all of them and in incoming order.
C10_AppendUnseen ==
    (mergeIn.n = 1 /\ ~mergeIn.forceRefresh)
        => /\ mergeIn.cacheKey \in DOMAIN papersCache
           /\ LET now == papersCache[mergeIn.cacheKey]
              IN  /\ Len(now) = Len(PrevEntry) + Cardinality(UnseenIndexes)
                  /\ \A j \in 1..Len(PrevEntry) : now[j] = PrevEntry[j]
                  /\ \A i \in UnseenIndexes :
                        now[Len(PrevEntry) + Cardinality({h \in UnseenIndexes : h <= i})]
                            = mergeIn.incoming[i]

\* C10 witness: a merge that dropped one incoming paper and appended two, the
\* appended ones out of date order with the previous entry.
C10_Witness ==
    /\ mergeIn.n = 1
    /\ ~mergeIn.forceRefresh
    /\ Len(PrevEntry) > 0
    /\ Cardinality(UnseenIndexes) > 0
    /\ Cardinality(UnseenIndexes) < Len(mergeIn.incoming)
    /\ papersCache[mergeIn.cacheKey][Len(PrevEntry) + 1].publishDate
           > PrevEntry[Len(PrevEntry)].publishDate


\* C11: with forceRefresh the entry of the key after the merge is the incoming
\* batch itself: the previous entry was discarded, so no previously cached
\* paper is left in it unless the batch brings it again.
C11_ForceReplaceDiscards ==
    (mergeIn.n = 1 /\ mergeIn.forceRefresh)
        => /\ mergeIn.cacheKey \in DOMAIN papersCache
           /\ papersCache[mergeIn.cacheKey] = mergeIn.incoming
           /\ \A p \in Range(PrevEntry) \ Range(mergeIn.incoming) :
                  p \notin Range(papersCache[mergeIn.cacheKey])

\* C11 witness: a forced merge over an entry that held a paper the batch does
\* not bring, with a batch that is not empty.
C11_Witness ==
    /\ mergeIn.n = 1
    /\ mergeIn.forceRefresh
    /\ Range(PrevEntry) \ Range(mergeIn.incoming) # {}
    /\ Ids(PrevEntry) \ Ids(mergeIn.incoming) # {}
    /\ mergeIn.incoming # <<>>


\* C12: when the last endpoint of a call that is not cancelled fails, so that
\* the primary and both proxies are exhausted, the error state is set.
C12_ExhaustionSetsError ==
    [][\A i \in Slots :
          (/\ ResponseFail(i)
           /\ fetches[i].attempt = Len(Endpoints) - 1
           /\ Failures(fetches[i]) = Len(Endpoints) - 1)
              => error' = ErrMsg]_vars


\* C13: the call that the Retry button of the error banner starts has
\* forceRefresh = FALSE, so that its result is merged into the entry the key
\* already has.
C13_RetryKeepsEntry ==
    [][\A i \in Slots :
          (Started(i) /\ RetryButton) => ~fetches'[i].forceRefresh]_vars


Deleted(id) == id \in topics /\ id \notin topics'

\* C14: deleting a topic takes exactly that topic off the list and leaves no
\* cache entry under its id; the active selection becomes the aggregated
\* view if the topic was the active one and is unchanged otherwise.
C14_DeleteTopic ==
    [][\A id \in ListedIds :
          Deleted(id)
              => /\ topics' = topics \ {id}
                 /\ id \notin DOMAIN papersCache'
                 /\ activeTopicId' = IF activeTopicId = id THEN Null ELSE activeTopicId]_vars

\* C14 witness: one topic was deleted while another one stays the active
\* selection with its entry, and the deleted topic has no entry.
C14_Witness ==
    /\ Cardinality(topics) = MaxListed - 1
    /\ activeTopicId \in topics
    /\ DOMAIN papersCache = {ALL, activeTopicId}
    /\ papersCache[activeTopicId] # <<>>

Shown(cache, bm, id) ==
    Cardinality({i \in 1..Len(DisplayedBookmarks(cache, bm)) :
                    DisplayedBookmarks(cache, bm)[i].id = id})

\* C16: deleting a topic leaves the bookmark set as it was, and every
\* bookmarked id that some remaining cache entry still holds is listed exactly
\* once by the bookmark view.
C16_BookmarksSurviveDelete ==
    [][\A id \in ListedIds :
          Deleted(id)
              => /\ bookmarkedIds' = bookmarkedIds
                 /\ \A b \in bookmarkedIds :
                        b \in {p.id : p \in AllCached(papersCache')}
                            => Shown(papersCache', bookmarkedIds', b) = 1]_vars

\* C16 witness: after a deletion a bookmarked paper is held by two remaining
\* entries, and another bookmarked paper is held by none.
C16_Witness ==
    /\ Cardinality(topics) = MaxListed - 1
    /\ \E t \in topics :
          /\ {ALL, t} \subseteq DOMAIN papersCache
          /\ \E b \in bookmarkedIds : b \in Ids(papersCache[ALL]) \cap Ids(papersCache[t])
    /\ \E b \in bookmarkedIds : b \notin {p.id : p \in AllCached(papersCache)}
    /\ viewMode = BOOKMARKS


Missing == viewMode = FEED /\ CacheKeyOf(activeTopicId) \notin DOMAIN papersCache
AutoInFlight ==
    \E i \in Slots : /\ Live(i)
                     /\ fetches[i].hasSignal
                     /\ ~fetches[i].isLoadMore /\ ~fetches[i].forceRefresh
                     /\ fetches[i].cacheKey = CacheKeyOf(activeTopicId)

\* C15: the automatic fetch runs only in the feed view for an active key that
\* has no entry (an entry, even the empty list, starts none); and while the
\* feed view shows a key without entry, the automatic fetch for that key is
\* eventually started (unless the key gets its entry, or the view is left,
\* first; MaxStarts ends the session).
C15_AbsenceTriggersFetch ==
    /\ [][TimerFire => Missing]_vars
    /\ Missing ~> (AutoInFlight \/ ~Missing \/ started = MaxStarts)

\* C15 witness: the feed shows a key whose entry is the empty list, left by a
\* fetch that found nothing; no timer is armed and nothing is in flight.
C15_Witness ==
    /\ viewMode = FEED
    /\ activeTopicId \in topics
    /\ activeTopicId \in DOMAIN papersCache
    /\ papersCache[activeTopicId] = <<>>
    /\ ~timer
    /\ \A i \in Slots : IsFree(fetches[i])
    /\ started < MaxStarts


NormalizedExcluded ==
    {NormalizeTitle(probe.excludeTitles[i]) : i \in 1..Len(probe.excludeTitles)}

\* C17: the list a service function returns holds no paper whose normalized
\* title is the normalized form of an element of excludeTitles, and no two
\* papers with the same normalized title, whatever their ids.
C17_ServiceDedup ==
    probe.fn # "none"
        => /\ \A i \in 1..Len(probe.result) :
                  NormalizeTitle(probe.result[i].title) \notin NormalizedExcluded
           /\ \A i, j \in 1..Len(probe.result) :
                  i # j => NormalizeTitle(probe.result[i].title)
                           # NormalizeTitle(probe.result[j].title)

\* C17 witness: the page held two papers with different ids and different
\* titles that normalize alike; one of them was returned.
C17_Witness ==
    /\ probe.fn # "none"
    /\ Len(probe.page) = 2
    /\ probe.page[1].id # probe.page[2].id
    /\ probe.page[1].title # probe.page[2].title
    /\ NormalizeTitle(probe.page[1].title) = NormalizeTitle(probe.page[2].title)
    /\ Len(probe.result) = 1
    /\ probe.excludeTitles # <<>>


Count(q, piece) == Cardinality({i \in 1..Len(q) : q[i] = piece})
FirstAnd(q) ==
    IF Count(q, " AND ") = 0 THEN Len(q) + 1
    ELSE CHOOSE i \in 1..Len(q) : q[i] = " AND " /\ \A j \in 1..(i - 1) : q[j] # " AND "
BaseClause(q) == SubSeq(q, 1, FirstAnd(q) - 1)

\* C18: the query of a topic with keywords is the base clause, then `AND (`,
\* then the keyword clauses joined with OR, then `)`; the query of a topic
\* without keywords is the base clause alone.
C18_KeywordClause ==
    (probe.fn = "fetchPapersForTopic")
        => LET q == probe.query
               n == Len(probe.topic.keywords)
           IN  IF n = 0
               THEN /\ Count(q, " AND ") = 0
                    /\ Count(q, "(") = 0
                    /\ Count(q, "cat:") + Count(q, "all:") = 1
               ELSE /\ Count(q, " AND ") = 1
                    /\ q[FirstAnd(q) + 1] = "("
                    /\ q[Len(q)] = ")"
                    /\ Count(q, " OR ") = n - 1
                    /\ Count(q, "cat:") + Count(q, "all:") = n + 1

Sanitized(name) ==
    LET clean == cleanTerm(name)
    IN  /\ Count(clean, DQuote) = 0
        /\ Count(clean, Backslash) = 0
        /\ clean # <<>> => (clean[1] # Blank /\ clean[Len(clean)] # Blank)

\* C19: the base clause of a topic's query is cat:eess.SY for Systems and
\* Control under Electrical Engineering and Systems Science, cat:stat.ML for
\* Machine Learning under Statistics, otherwise cat:<code> with the table's
\* code of the field when the table has one, and otherwise the quoted
\* full-text clause on the cleaned field name, or on the cleaned category
\* name when the topic has no field; it is one clause, never both kinds.
C19_BaseClause ==
    (probe.fn = "fetchPapersForTopic")
        => LET t == probe.topic
               base == BaseClause(probe.query)
               name == IF t.subCategory # <<>> THEN t.subCategory ELSE t.category
           IN  /\ Count(base, "cat:") + Count(base, "all:") = 1
               /\ IF t.subCategory = SystemsAndControl /\ t.category = ElectricalEngineering
                  THEN base = <<"cat:", "eess.SY">>
                  ELSE IF t.subCategory = MachineLearning /\ t.category = Statistics
                  THEN base = <<"cat:", "stat.ML">>
                  ELSE IF t.subCategory = ArtificialIntelligence
                  THEN base = <<"cat:", "cs.AI">>
                  ELSE IF t.subCategory = MachineLearning
                  THEN base = <<"cat:", "cs.LG">>
                  ELSE IF t.subCategory = SystemsAndControl
                  THEN base = <<"cat:", "cs.SY">>
                  ELSE /\ base = <<"all:", DQuote>> \o cleanTerm(name) \o <<DQuote>>
                       /\ Sanitized(name)

\* C19 witness: a topic whose field is Machine Learning under Statistics and
\* that has keywords: its base clause is the code of the special case, not
\* the table's cs.LG.
C19_Witness ==
    /\ probe.fn = "fetchPapersForTopic"
    /\ probe.topic.subCategory = MachineLearning
    /\ probe.topic.category = Statistics
    /\ Len(probe.topic.keywords) = MaxKeywords
    /\ BaseClause(probe.query) = <<"cat:", "stat.ML">>

\* C20: fetchAggregatedPapers sends no request and returns the empty list
\* when no topic is subscribed; otherwise it sends one query, and the clauses
\* of that query that come from topics are at most 5, however many topics
\* are subscribed.
C20_BoundedSubset ==
    (probe.fn = "fetchAggregatedPapers")
        => IF Len(probe.topics) = 0
           THEN probe.requests = <<>> /\ probe.result = <<>>
           ELSE /\ Len(probe.requests) = 1
                /\ LET q == probe.requests[1]
                   IN  Count(q, "cat:") + Count(q, "all:") - Len(probe.aiKeywords) <= 5


\* The step in which the last endpoint of call i fails.
Exhausts(i) ==
    /\ ResponseFail(i)
    /\ fetches[i].attempt = Len(Endpoints) - 1

\* C25: when a call fails on its last endpoint its key has an entry
\* afterwards, the empty list if it had none, and the sync effect arms no
\* automatic fetch for that key.
C25_ExhaustionRecordsEntry ==
    [][\A i \in Slots :
          Exhausts(i)
              => LET key == fetches[i].cacheKey
                 IN  /\ key \in DOMAIN papersCache'
                     /\ key \notin DOMAIN papersCache => papersCache'[key] = <<>>
                     /\ ~AutoFetchDue(viewMode', papersCache', key)
                     /\ CacheKeyOf(activeTopicId') = key => ~timer']_vars

\* C25 witness: the automatic fetch for a key without entry has seen two
\* endpoints fail and waits for the answer of the last one.
C25_Witness ==
    \E i \in Slots :
        /\ Live(i)
        /\ fetches[i].hasSignal
        /\ fetches[i].pc = "req"
        /\ fetches[i].attempt = Len(Endpoints) - 1
        /\ Failures(fetches[i]) = Len(Endpoints) - 1
        /\ fetches[i].cacheKey \notin DOMAIN papersCache
        /\ fetches[i].cacheKey = CacheKeyOf(activeTopicId)

\* C26: when a manual refresh fails on its last endpoint, the entry its key
\* had is as before.
C26_FailedRefreshKeepsEntry ==
    [][\A i \in Slots :
          (Exhausts(i) /\ fetches[i].forceRefresh
              /\ fetches[i].cacheKey \in DOMAIN papersCache)
              => Entry(papersCache', fetches[i].cacheKey)
                     = Entry(papersCache, fetches[i].cacheKey)]_vars

\* C27: every cache key is "all" or the id of a subscribed topic.
C27_KeysAreSubscribed ==
    \A k \in DOMAIN papersCache : k = ALL \/ k \in topics

\* C28: whenever no call is in flight, both loading flags are down.
C28_FlagsFollowCalls ==
    (\A i \in Slots : IsFree(fetches[i])) => (~initialLoading /\ ~loadingMore)

\* C30: a step that adds or deletes a topic leaves the aggregated entry and
\* the entry of every key other than the deleted topic's as they were,
\* present with the same papers or absent, and arms no automatic fetch for an
\* aggregated entry that is cached.
C30_TopicChangeKeepsOthers ==
    [][topics' # topics
          => /\ \A k \in ({ALL} \cup topics \cup topics' \cup DOMAIN papersCache)
                            \ (topics \ topics') :
                    Entry(papersCache', k) = Entry(papersCache, k)
             /\ (ALL \in DOMAIN papersCache /\ activeTopicId' = Null) => ~timer']_vars

\* C30 witness: a topic was added and a listed one deleted, and the aggregated
\* entry and the entry of a remaining listed topic still hold papers.
C30_Witness ==
    /\ IdStr(MaxListed + 1) \in topics
    /\ Cardinality(topics) = MaxListed
    /\ ALL \in DOMAIN papersCache /\ papersCache[ALL] # <<>>
    /\ \E t \in topics \cap ListedIds :
          t \in DOMAIN papersCache /\ papersCache[t] # <<>>

ActiveExists == activeTopicId = Null \/ activeTopicId \in topics

\* C23: a call of fetchPapers made while the active id is set and carried by
\* no topic starts no request and leaves the cache, the displayed papers,
\* both loading flags and the error state as they were.
C23_MissingTopicNoOp ==
    [][(probe'.calls # probe.calls /\ ~ActiveExists)
          => UNCHANGED <<papersCache, papers, initialLoading, loadingMore, error,
                         fetches, started>>]_vars

\* C23 witness: with an active id that no topic carries, the refresh button
\* and the observer both called fetchPapers and nothing is in flight.
C23_Witness ==
    /\ ~ActiveExists
    /\ {"button", "observer"} \subseteq probe.calls
    /\ \A i \in Slots : IsFree(fetches[i])
    /\ ~initialLoading /\ ~loadingMore

\* C24: an active id that no topic carries leads to the aggregated view, and
\* once the update of the validation effect is applied the active id is null
\* or the id of a listed topic, whatever is deleted afterwards.
C24_InvalidActiveReset ==
    /\ (~ActiveExists) ~> (activeTopicId = Null)
    /\ [](probe.validated => ActiveExists)

\* C24 witness: the restored active id belonged to no topic of the restored
\* list, and the selection is now the aggregated view.
C24_Witness ==
    /\ probe.validated
    /\ probe.was # Null /\ probe.was \notin probe.among
    /\ probe.among # {}
    /\ activeTopicId = Null

\* C29: a load-more call asks for the page that starts at the number of
\* papers cached for its key, and no load-more call starts while the last one
\* left the entry's length unchanged and the user has not scrolled since.
C29_LoadMoreTerminates ==
    [][\A i \in Slots :
          (Started(i) /\ fetches'[i].isLoadMore)
              => /\ fetches'[i].start = Len(papersCache[fetches'[i].cacheKey])
                 /\ ~probe.stale]_vars

\* The debounce timer fired in this step.
CacheWritten == probe.due = probe.now /\ probe'.due = -1

\* C21: once the cache was mutated, it is written to storage one debounce
\* interval after its last mutation, not earlier, and once only: every
\* timeout that follows a mutation happens DebounceTicks after the last one,
\* finds the cache changed since the last write, and a write of the whole
\* cache that succeeds stores the cache as it is then.
C21_DebouncedWrite ==
    [][(CacheWritten /\ probe.mutatedAt # -1)
          => /\ probe.now = probe.mutatedAt + DebounceTicks
             /\ probe.dirty
             /\ probe'.tried[1].ok
                    => probe'.storage.ss_cache = <<"json", papersCache>>]_vars

\* C22: a timeout first writes the whole cache; when that fails it writes
\* the entry of the current key alone, cut to its first PruneCount papers;
\* when that fails too it removes the key.  Whatever the outcome, the stored
\* topics, bookmarks and theme, the error state and the cache in memory are
\* as they were.
C22_PruneChain ==
    [][CacheWritten
          => LET key == CacheKeyOf(activeTopicId)
                 t == probe'.tried
                 st == probe'.storage
             IN  /\ t[1].value = papersCache
                 /\ t[1].ok => Len(t) = 1 /\ st.ss_cache = <<"json", papersCache>>
                 /\ ~t[1].ok
                      => /\ Len(t) = 2
                         /\ DOMAIN t[2].value = {key} \cap DOMAIN papersCache
                         /\ \A k \in DOMAIN t[2].value :
                               /\ Len(t[2].value[k]) <= PruneCount
                               /\ Len(t[2].value[k]) = Len(papersCache[k])
                                     \/ Len(t[2].value[k]) = PruneCount
                               /\ \A n \in 1..Len(t[2].value[k]) :
                                     t[2].value[k][n] = papersCache[k][n]
                         /\ t[2].ok => st.ss_cache = <<"json", t[2].value>>
                         /\ ~t[2].ok => st.ss_cache = <<"absent">>
                 /\ st.ss_topics = probe.storage.ss_topics
                 /\ st.ss_bookmarks = probe.storage.ss_bookmarks
                 /\ st.ss_theme = probe.storage.ss_theme
                 /\ error' = error
                 /\ papersCache' = papersCache
                 /\ papers' = papers]_vars

\* C22 witness: the write of a cache with two entries failed, and the current
\* entry, one paper longer than the prune keeps, was stored alone and cut.
C22_Witness ==
    /\ probe.tried # <<>>
    /\ ~probe.tried[1].ok
    /\ probe.tried[2].ok
    /\ DOMAIN papersCache = MergeKeys
    /\ Len(papersCache[CacheKeyOf(activeTopicId)]) = PruneCount + 1
    /\ probe.storage.ss_cache[1] = "json"
    /\ DOMAIN probe.storage.ss_cache[2] = {CacheKeyOf(activeTopicId)}
    /\ Len(probe.storage.ss_cache[2][CacheKeyOf(activeTopicId)]) = PruneCount

====
